---- MODULE Spec2Model ----
(***************************************************************************)
(* The lexer (src/src/Lexer/lexer.js) and the recursive-descent parser     *)
(* (src/unnamed/part_001) of the expression language, as a state machine.  *)
(*                                                                         *)
(* A source text is a sequence of one-character strings.  The lexer is a   *)
(* cursor (position, line, column) over the input; nextToken is computed   *)
(* as the code computes it, recognizer by recognizer.  The parser is a     *)
(* stack machine: one frame per active parse* call, one action per parse*  *)
(* method, each step running the method from its current label up to the   *)
(* next call or return.                                                    *)
(***************************************************************************)
EXTENDS Integers, Sequences, FiniteSets, TLC

VARIABLES input, position, line, column, currentToken, stack, ret, status, error, tokens,
          everyNodeAnswers

vars == <<input, position, line, column, currentToken, stack, ret, status, error, tokens,
          everyNodeAnswers>>

lexvars == <<input, position, line, column>>

(***************************************************************************)
(* Bounds of the model.                                                    *)
(***************************************************************************)
MaxLexLen == 3

MaxOperands == 3

MaxParseLen == 3

(***************************************************************************)
(* Strings.                                                                *)
(***************************************************************************)
RECURSIVE Str(_)
Str(s) == IF s = <<>> THEN "" ELSE Head(s) \o Str(Tail(s))

\* String.prototype.charAt: the empty string past the end (0-based index).
CharAt(s, i) == IF i >= 0 /\ i < Len(s) THEN s[i + 1] ELSE ""

\* String.prototype.substring(from): the rest of the text from a 0-based index.
Substring(s, from) == SubSeq(s, from + 1, Len(s))

\* All texts over an alphabet of length at most n.
RECURSIVE TextsUpTo(_, _)
TextsUpTo(alphabet, n) ==
    IF n = 0 THEN {<<>>}
    ELSE LET shorter == TextsUpTo(alphabet, n - 1)
         IN shorter \cup {Append(s, c) : s \in shorter, c \in alphabet}

(***************************************************************************)
(* JavaScript's undefined and null, as values of the model.                *)
(***************************************************************************)
UndefinedType == "<undefined>"

UndefinedValue == <<"<undefined>">>

NullChar == "<null>"

(***************************************************************************)
(* CharUtils: the character classifier.                                    *)
(***************************************************************************)
Digits == {"0", "1", "2", "3", "4", "5", "6", "7", "8", "9"}

Letters == {"a", "b", "c", "d", "e", "f", "g", "h", "i", "j", "k", "l", "m",
            "n", "o", "p", "q", "r", "s", "t", "u", "v", "w", "x", "y", "z",
            "A", "B", "C", "D", "E", "F", "G", "H", "I", "J", "K", "L", "M",
            "N", "O", "P", "Q", "R", "S", "T", "U", "V", "W", "X", "Y", "Z"}

isDigit(c) == c \in Digits

isLetter(c) == c \in Letters

isLetterOrUnderscore(c) == isLetter(c) \/ c = "_"

isWhitespace(c) == c \in {" ", "\t", "\r", "\f"}

isNewLine(c) == c = "\n"

isValidPartOfNumber(c) == isDigit(c) \/ c = "."

isComparisonOperator(c) == c \in {">", "<", "="}

isArithmeticOperator(c) == c \in {"+", "-", "*", "/", "%"}

isBooleanOperator(c) == c \in {"!", "&", "|"}

isOperator(c) == isComparisonOperator(c) \/ isArithmeticOperator(c) \/ isBooleanOperator(c)

isDelimiter(c) == c \in {"(", ")", "{", "}", "[", "]", ",", ";", "@"}

(***************************************************************************)
(* TokenType and Token.                                                    *)
(***************************************************************************)
TokenType ==
    [Integer |-> "integer", Decimal |-> "decimal", String |-> "string",
     Identifier |-> "identifier", Newline |-> "\n", Dot |-> ".",
     EndOfInput |-> "EndOfInput",
     Plus |-> "+", Minus |-> "-", Times |-> "*", Div |-> "/", Modulo |-> "%",
     Assign |-> "=", Equal |-> "==", NotEqual |-> "!=",
     Less |-> "<", LessOrEqual |-> "<=", Greater |-> ">", GreaterOrEqual |-> ">=",
     And |-> "&&", Or |-> "||", Not |-> "!"]

\* new Token(type, value, line, column)
Token(type, value, ln, col) ==
    [cls |-> "Token", type |-> type, value |-> value, line |-> ln, column |-> col]

\* new Token(TokenType.EndOfInput): value, line and column stay undefined.
EndOfInputToken ==
    [cls |-> "Token", type |-> TokenType.EndOfInput, value |-> UndefinedValue,
     line |-> -1, column |-> -1]

\* new Error(...) handed back as a value: an object with no type and no value.
ErrorObject ==
    [cls |-> "Error", type |-> UndefinedType, value |-> UndefinedValue,
     line |-> -1, column |-> -1]

\* A recognizer that falls off its end returns undefined.
UndefinedToken ==
    [cls |-> "undefined", type |-> UndefinedType, value |-> UndefinedValue,
     line |-> -1, column |-> -1]

\* What a lexer method leaves behind: the value it returns and the cursor.
Lexed(tok, pos, ln, col) ==
    [thrown |-> FALSE, token |-> tok, position |-> pos, line |-> ln, column |-> col]

\* throw new Error(...) inside the lexer.
LexThrow(pos, ln, col) ==
    [thrown |-> TRUE, token |-> UndefinedToken, position |-> pos, line |-> ln, column |-> col]

(***************************************************************************)
(* The recognizers of the Lexer.                                           *)
(***************************************************************************)
recognizeDelimiter(inp, pos, ln, col) ==
    LET character == CharAt(inp, pos)
    IN Lexed(Token(character, <<character>>, ln, col), pos + 1, ln, col + 1)

\* recognizeComparisonOperator as it would be with the lexeme of '<=' written '<':
\* the variant C10 must tell from the lexer.
recognizeComparisonOperatorShortLexeme(inp, pos, ln, col) ==
    LET character == CharAt(inp, pos)
        lookahead == IF pos + 1 < Len(inp) THEN CharAt(inp, pos + 1) ELSE NullChar
        isLookaheadEqualSymbol == lookahead # NullChar /\ lookahead = "="
        newpos == IF isLookaheadEqualSymbol THEN pos + 2 ELSE pos + 1
        newcol == IF isLookaheadEqualSymbol THEN col + 2 ELSE col + 1
        tok == CASE character = ">" ->
                      IF isLookaheadEqualSymbol
                      THEN Token(TokenType.GreaterOrEqual, <<">", "=">>, ln, col)
                      ELSE Token(TokenType.Greater, <<">">>, ln, col)
                 [] character = "<" ->
                      IF isLookaheadEqualSymbol
                      THEN Token(TokenType.LessOrEqual, <<"<">>, ln, col)
                      ELSE Token(TokenType.Less, <<"<">>, ln, col)
                 [] character = "=" ->
                      IF isLookaheadEqualSymbol
                      THEN Token(TokenType.Equal, <<"=", "=">>, ln, col)
                      ELSE Token(TokenType.Assign, <<"=">>, ln, col)
                 [] OTHER -> UndefinedToken
    IN Lexed(tok, newpos, ln, newcol)

recognizeComparisonOperator(inp, pos, ln, col) ==
    LET character == CharAt(inp, pos)
        lookahead == IF pos + 1 < Len(inp) THEN CharAt(inp, pos + 1) ELSE NullChar
        isLookaheadEqualSymbol == lookahead # NullChar /\ lookahead = "="
        newpos == IF isLookaheadEqualSymbol THEN pos + 2 ELSE pos + 1
        newcol == IF isLookaheadEqualSymbol THEN col + 2 ELSE col + 1
        tok == CASE character = ">" ->
                      IF isLookaheadEqualSymbol
                      THEN Token(TokenType.GreaterOrEqual, <<">", "=">>, ln, col)
                      ELSE Token(TokenType.Greater, <<">">>, ln, col)
                 [] character = "<" ->
                      IF isLookaheadEqualSymbol
                      THEN Token(TokenType.LessOrEqual, <<"<", "=">>, ln, col)
                      ELSE Token(TokenType.Less, <<"<">>, ln, col)
                 [] character = "=" ->
                      IF isLookaheadEqualSymbol
                      THEN Token(TokenType.Equal, <<"=", "=">>, ln, col)
                      ELSE Token(TokenType.Assign, <<"=">>, ln, col)
                 [] OTHER -> UndefinedToken
    IN Lexed(tok, newpos, ln, newcol)

recognizeBooleanOperator(inp, pos, ln, col) ==
    LET character == CharAt(inp, pos)
        lookahead == IF pos + 1 < Len(inp) THEN CharAt(inp, pos + 1) ELSE NullChar
        \* "Whether the 'lookahead' character exists"
        isLookaheadEqualSymbol == lookahead # NullChar
        newpos == IF isLookaheadEqualSymbol THEN pos + 2 ELSE pos + 1
        newcol == IF isLookaheadEqualSymbol THEN col + 2 ELSE col + 1
        tok == CASE character = "!" ->
                      IF isLookaheadEqualSymbol /\ lookahead = "="
                      THEN Token(TokenType.NotEqual, <<"!", "=">>, ln, col)
                      ELSE Token(TokenType.Not, <<"!">>, ln, col)
                 [] character = "&" ->
                      IF isLookaheadEqualSymbol /\ lookahead = "&"
                      THEN Token(TokenType.And, <<"&", "&">>, ln, col)
                      ELSE ErrorObject
                 [] character = "|" ->
                      IF isLookaheadEqualSymbol
                      THEN Token(TokenType.Or, <<"|", "|">>, ln, col)
                      ELSE ErrorObject
                 [] OTHER -> UndefinedToken
    IN Lexed(tok, newpos, ln, newcol)

recognizeArithmeticOperator(inp, pos, ln, col) ==
    LET character == CharAt(inp, pos)
        tok == CASE character = "+" -> Token(TokenType.Plus, <<"+">>, ln, col)
                 [] character = "-" -> Token(TokenType.Minus, <<"-">>, ln, col)
                 [] character = "*" -> Token(TokenType.Times, <<"*">>, ln, col)
                 [] character = "/" -> Token(TokenType.Div, <<"/">>, ln, col)
                 [] character = "%" -> Token(TokenType.Modulo, <<"%">>, ln, col)
                 [] OTHER -> UndefinedToken
    IN Lexed(tok, pos + 1, ln, col + 1)

recognizeOperator(inp, pos, ln, col) ==
    LET character == CharAt(inp, pos)
    IN CASE isComparisonOperator(character) -> recognizeComparisonOperator(inp, pos, ln, col)
         [] isArithmeticOperator(character) -> recognizeArithmeticOperator(inp, pos, ln, col)
         [] isBooleanOperator(character) -> recognizeBooleanOperator(inp, pos, ln, col)
         [] OTHER -> Lexed(UndefinedToken, pos, ln, col)

recognizeNewLine(inp, pos, ln, col) ==
    Lexed(Token(TokenType.Newline, <<"\n">>, ln, col), pos + 1, ln + 1, 0)

recognizeDot(inp, pos, ln, col) ==
    Lexed(Token(TokenType.Dot, <<".">>, ln, col), pos + 1, ln, col + 1)

keywords ==
    {<<"c", "l", "a", "s", "s">>, <<"e", "l", "s", "e">>,
     <<"e", "x", "t", "e", "n", "d", "s">>, <<"f", "a", "l", "s", "e">>,
     <<"f", "i", "n", "a", "l">>, <<"f", "u", "n", "c">>, <<"f", "o", "r">>,
     <<"i", "f">>, <<"i", "n">>, <<"l", "e", "t">>, <<"n", "e", "w">>,
     <<"n", "u", "l", "l">>, <<"o", "v", "e", "r", "r", "i", "d", "e">>,
     <<"p", "r", "i", "v", "a", "t", "e">>, <<"r", "e", "t", "u", "r", "n">>,
     <<"s", "u", "p", "e", "r">>, <<"t", "o">>, <<"t", "h", "i", "s">>,
     <<"t", "r", "u", "e">>, <<"v", "a", "r">>, <<"w", "h", "i", "l", "e">>}

\* The while loop of recognizeIdentifier: the identifier characters from pos on.
RECURSIVE identifierFrom(_, _)
identifierFrom(inp, pos) ==
    IF pos < Len(inp)
    THEN LET character == CharAt(inp, pos)
         IN IF ~(isLetter(character) \/ isDigit(character) \/ character \in {"_", "-", "$"})
            THEN <<>>
            ELSE <<character>> \o identifierFrom(inp, pos + 1)
    ELSE <<>>

\* recognizeIdentifier once its loop has collected the identifier.
identifierToken(identifier, pos, ln, col) ==
    Lexed(IF identifier \in keywords
          THEN Token(Str(identifier), identifier, ln, col)
          ELSE Token(TokenType.Identifier, identifier, ln, col),
          pos + Len(identifier), ln, col + Len(identifier))

recognizeIdentifier(inp, pos, ln, col) ==
    identifierToken(identifierFrom(inp, pos), pos, ln, col)

\* The while loop of recognizeString: the characters after the opening quote,
\* through the closing quote when there is one.
RECURSIVE stringFrom(_, _)
stringFrom(inp, pos) ==
    IF pos < Len(inp)
    THEN LET character == CharAt(inp, pos)
         IN IF character = "\""
            THEN <<character>>
            ELSE <<character>> \o stringFrom(inp, pos + 1)
    ELSE <<>>

\* stringToken as it would be if the cursor moved by the content of the string
\* only, the quotes not counted: the variant C5 must tell from the lexer.
stringTokenContentOnly(string, pos, ln, col) ==
    Lexed(Token(TokenType.String, string, ln, col),
          pos + Len(string) - 2, ln, col + Len(string) - 2)

\* recognizeString once its loop has collected the string.
stringToken(string, pos, ln, col) ==
    Lexed(Token(TokenType.String, string, ln, col), pos + Len(string), ln, col + Len(string))

recognizeString(inp, pos, ln, col) ==
    stringToken(<<"\"">> \o stringFrom(inp, pos + 1), pos, ln, col)

(***************************************************************************)
(* The number recognizer: the states and the transition function that      *)
(* buildNumberRecognizer gives the FSM, and the FSM's runner.              *)
(***************************************************************************)
Initial == 1

Integer == 2

BeginNumberWithFractionalPart == 3

NumberWithFractionalPart == 4

BeginNumberWithExponent == 5

BeginNumberWithSignedExponent == 6

NumberWithExponent == 7

NoNextState == -1

acceptingStates == {Integer, NumberWithFractionalPart, NumberWithExponent}

\* CharUtils.isDigit() called with no argument: undefined is no digit.
isDigitOfNothing == isDigit(UndefinedType)

\* nextState as it would be if '.' after digits were already a fractional part:
\* the variant C9 must tell from the lexer.
nextStateDotAccepted(currentState, character) ==
    CASE currentState = Initial ->
           IF isDigit(character) THEN Integer
           ELSE IF character = "." THEN BeginNumberWithFractionalPart
           ELSE NoNextState
      [] currentState = Integer ->
           IF isDigit(character) THEN Integer
           ELSE IF character = "." THEN NumberWithFractionalPart
           ELSE IF character \in {"e", "E"} THEN BeginNumberWithExponent
           ELSE NoNextState
      [] currentState = BeginNumberWithFractionalPart ->
           IF isDigit(character) THEN NumberWithFractionalPart
           ELSE NoNextState
      [] currentState = NumberWithFractionalPart ->
           IF isDigit(character) THEN NumberWithFractionalPart
           ELSE IF character \in {"e", "E"} THEN BeginNumberWithExponent
           ELSE NoNextState
      [] currentState = BeginNumberWithExponent ->
           IF character \in {"+", "-"} THEN BeginNumberWithSignedExponent
           ELSE IF isDigitOfNothing THEN NumberWithExponent
           ELSE NoNextState
      [] currentState = BeginNumberWithSignedExponent ->
           IF isDigitOfNothing THEN NumberWithExponent
           ELSE NoNextState
      [] OTHER -> NoNextState

nextState(currentState, character) ==
    CASE currentState = Initial ->
           IF isDigit(character) THEN Integer
           ELSE IF character = "." THEN BeginNumberWithFractionalPart
           ELSE NoNextState
      [] currentState = Integer ->
           IF isDigit(character) THEN Integer
           ELSE IF character = "." THEN BeginNumberWithFractionalPart
           ELSE IF character \in {"e", "E"} THEN BeginNumberWithExponent
           ELSE NoNextState
      [] currentState = BeginNumberWithFractionalPart ->
           IF isDigit(character) THEN NumberWithFractionalPart
           ELSE NoNextState
      [] currentState = NumberWithFractionalPart ->
           IF isDigit(character) THEN NumberWithFractionalPart
           ELSE IF character \in {"e", "E"} THEN BeginNumberWithExponent
           ELSE NoNextState
      [] currentState = BeginNumberWithExponent ->
           IF character \in {"+", "-"} THEN BeginNumberWithSignedExponent
           ELSE IF isDigitOfNothing THEN NumberWithExponent
           ELSE NoNextState
      [] currentState = BeginNumberWithSignedExponent ->
           IF isDigitOfNothing THEN NumberWithExponent
           ELSE NoNextState
      [] OTHER -> NoNextState

\* FSM.run from the i-th character (1-based) in state `state`; accLen and accState
\* are the length and the state of the last accepting boundary passed (0: none).
RECURSIVE fsmRunFrom(_, _, _, _, _)
fsmRunTo(text, i, state, accLen, accState, to) ==
    IF to = NoNextState
    THEN IF accLen > 0
         THEN [isNumberRecognized |-> TRUE, number |-> SubSeq(text, 1, accLen),
               state |-> accState]
         ELSE [isNumberRecognized |-> FALSE, number |-> SubSeq(text, 1, i - 1),
               state |-> state]
    ELSE IF to \in acceptingStates
         THEN fsmRunFrom(text, i + 1, to, i, to)
         ELSE fsmRunFrom(text, i + 1, to, accLen, accState)

fsmRunFrom(text, i, state, accLen, accState) ==
    fsmRunTo(text, i, state, accLen, accState,
             IF i <= Len(text) THEN nextState(state, text[i]) ELSE NoNextState)

fsmRun(text) == fsmRunFrom(text, 1, Initial, 0, Initial)

\* numberTokenType as it would be if the test for the Integer state were missing:
\* the variant C8 must tell from the lexer.
numberTokenTypeDecimalOnly(state) ==
    IF state = 4 THEN TokenType.Decimal
    ELSE UndefinedType

\* The token type recognizeNumberOrDot gives a recognized number.
numberTokenType(state) ==
    IF state = 2 THEN TokenType.Integer
    ELSE IF state = 4 THEN TokenType.Decimal
    ELSE UndefinedType

\* recognizeNumberOrDot once the FSM has run: r is what fsm.run returned.
numberOrDot(inp, pos, ln, col, r) ==
    IF r.isNumberRecognized
    THEN Lexed(Token(numberTokenType(r.state), r.number, ln, col),
               pos + Len(r.number), ln, col + Len(r.number))
    ELSE IF r.number = <<".">> /\ r.state = 3
    THEN recognizeDot(inp, pos, ln, col)
    ELSE Lexed(UndefinedToken, pos, ln, col)

recognizeNumberOrDot(inp, pos, ln, col) ==
    numberOrDot(inp, pos, ln, col, fsmRun(Substring(inp, pos)))

\* skipWhitespaces: how many whitespace characters start at pos.
RECURSIVE whitespacesFrom(_, _)
whitespacesFrom(inp, pos) ==
    IF pos < Len(inp) /\ isWhitespace(CharAt(inp, pos))
    THEN 1 + whitespacesFrom(inp, pos + 1)
    ELSE 0

skipWhitespaces(inp, pos) == whitespacesFrom(inp, pos)

\* nextToken after skipWhitespaces: the dispatch on the character at the cursor.
classify(inp, p, ln, c, character) ==
    CASE isNewLine(character) -> recognizeNewLine(inp, p, ln, c)
      [] isLetterOrUnderscore(character) -> recognizeIdentifier(inp, p, ln, c)
      [] isValidPartOfNumber(character) -> recognizeNumberOrDot(inp, p, ln, c)
      [] isOperator(character) -> recognizeOperator(inp, p, ln, c)
      [] isDelimiter(character) -> recognizeDelimiter(inp, p, ln, c)
      [] character = "\"" -> recognizeString(inp, p, ln, c)
      [] OTHER -> LexThrow(p, ln, c)

skipped(inp, pos, ln, col, n) == classify(inp, pos + n, ln, col + n, CharAt(inp, pos + n))

nextToken(inp, pos, ln, col) ==
    IF pos >= Len(inp)
    THEN Lexed(EndOfInputToken, pos, ln, col)
    ELSE skipped(inp, pos, ln, col, skipWhitespaces(inp, pos))

(***************************************************************************)
(* Lexer.tokenize, one iteration of its loop per step.                     *)
(***************************************************************************)
UndefinedNode == [kind |-> "undefined"]

NoError == ""

\* tokenizeWith as it would be if the token were pushed before the test for
\* EndOfInput: the variant C12 must tell from the lexer.
tokenizeWithSentinel(r) ==
    /\ position' = r.position
    /\ line' = r.line
    /\ column' = r.column
    /\ IF r.thrown
       THEN /\ status' = "thrown"
            /\ error' = "Unrecognized character"
            /\ tokens' = tokens
       ELSE IF r.token.cls = "undefined"
       THEN /\ status' = "thrown"
            /\ error' = "TypeError"
            /\ tokens' = tokens
       ELSE /\ tokens' = Append(tokens, r.token)
            /\ status' = IF r.token.type # TokenType.EndOfInput THEN status ELSE "returned"
            /\ error' = error

\* One pass of the loop of tokenize, r being what nextToken left behind.
tokenizeWith(r) ==
    /\ position' = r.position
    /\ line' = r.line
    /\ column' = r.column
    /\ IF r.thrown
       THEN /\ status' = "thrown"
            /\ error' = "Unrecognized character"
            /\ tokens' = tokens
       ELSE IF r.token.cls = "undefined"
       THEN \* token.type of undefined
            /\ status' = "thrown"
            /\ error' = "TypeError"
            /\ tokens' = tokens
       ELSE IF r.token.type # TokenType.EndOfInput
       THEN /\ tokens' = Append(tokens, r.token)
            /\ UNCHANGED <<status, error>>
       ELSE /\ status' = "returned"
            /\ UNCHANGED <<tokens, error>>

tokenize ==
    /\ status = "running"
    /\ tokenizeWith(nextToken(input, position, line, column))
    /\ UNCHANGED <<input, currentToken, stack, ret, everyNodeAnswers>>

LexAlphabet == {"1", "2", ".", "e", "a", "_", "-", "+", "!", "&", "|", "=", "<", "\"", " ", "\n", "(", "#"}

LexInputs == TextsUpTo(LexAlphabet, MaxLexLen)

LexInit ==
    /\ input \in LexInputs
    /\ position = 0
    /\ line = 0
    /\ column = 0
    /\ tokens = <<>>
    /\ status = "running"
    /\ error = NoError
    /\ currentToken = UndefinedToken
    /\ stack = <<>>
    /\ ret = UndefinedNode
    /\ everyNodeAnswers = FALSE

LexNext == tokenize

LexSpec == LexInit /\ [][LexNext]_vars

(***************************************************************************)
(* AST nodes.                                                              *)
(***************************************************************************)
NullNode == [kind |-> "null"]

ConstantNode(value, type) == [kind |-> "ConstantNode", value |-> value, type |-> type]

SymbolNode(name) == [kind |-> "SymbolNode", name |-> name]

OperatorNode(name, operator, left, right) ==
    [kind |-> "OperatorNode", name |-> name, operator |-> operator,
     left |-> left, right |-> right]

RelationalNode(conditionals, params) ==
    [kind |-> "RelationalNode", conditionals |-> conditionals, params |-> params]

ConditionalNode(condition, trueExpr, falseExpr) ==
    [kind |-> "ConditionalNode", condition |-> condition, trueExpr |-> trueExpr,
     falseExpr |-> falseExpr]

WhileLoopNode(condition, body) ==
    [kind |-> "WhileLoopNode", condition |-> condition, body |-> body]

BlockNode(blocks) == [kind |-> "BlockNode", blocks |-> blocks]

AssignmentNode(symbol, value, firstAssignment) ==
    [kind |-> "AssignmentNode", symbol |-> symbol, value |-> value,
     firstAssignment |-> firstAssignment]

FunctionAssignmentNode(name, args, value, firstAssignment) ==
    [kind |-> "FunctionAssignmentNode", name |-> name, args |-> args, value |-> value,
     firstAssignment |-> firstAssignment]

FunctionCallNode(identifier, args) ==
    [kind |-> "FunctionCallNode", identifier |-> identifier, args |-> args]

AccessorNode(object, index) ==
    [kind |-> "AccessorNode", object |-> object, index |-> index]

ParenthesisNode(content) == [kind |-> "ParenthesisNode", content |-> content]

ArrayNode(content) == [kind |-> "ArrayNode", content |-> content]

MapNode(keyValuePairs) == [kind |-> "MapNode", keyValuePairs |-> keyValuePairs]

\* The capability queries the parser asks of a node it has parsed.
isSymbolNode(node) == node.kind = "SymbolNode"

\* Whether a node has the method isFunctionCallNode or isAccessorNode at all.  AstNode
\* declares neither; the class the method is named after has it, and everyNodeAnswers
\* says whether the other node classes, which are not in the sources, have it too.
answers(node, kind) == node.kind = kind \/ everyNodeAnswers

isFunctionCallNode(node) == node.kind = "FunctionCallNode"

isAccessorNode(node) == node.kind = "AccessorNode"

(***************************************************************************)
(* The parser's state as one value, so that the straight-line code of a    *)
(* method (several next() and expect() calls in a row) composes.           *)
(***************************************************************************)
Machine ==
    [position |-> position, line |-> line, column |-> column,
     currentToken |-> currentToken, stack |-> stack, ret |-> ret,
     status |-> status, error |-> error]

Become(m) ==
    /\ position' = m.position
    /\ line' = m.line
    /\ column' = m.column
    /\ currentToken' = m.currentToken
    /\ stack' = m.stack
    /\ ret' = m.ret
    /\ status' = m.status
    /\ error' = m.error
    /\ UNCHANGED <<input, tokens, everyNodeAnswers>>

\* A call's frame: the method, the label it resumes at, and its locals.
Frame(fn, node) ==
    [fn |-> fn, pc |-> "start", node |-> node, params |-> <<>>, conditionals |-> <<>>,
     name |-> UndefinedValue, operator |-> UndefinedType,
     condition |-> UndefinedNode, trueExpr |-> UndefinedNode,
     firstAssignment |-> FALSE]

Top(m) == m.stack[Len(m.stack)]

Running(m) == m.status = "running"

\* throw new Error(msg): the exception leaves every active call.
Throw(m, msg) ==
    IF Running(m) THEN [m EXCEPT !.status = "thrown", !.error = msg] ELSE m

\* The running method's locals become those of f.
Store(m, f) ==
    IF Running(m) THEN [m EXCEPT !.stack[Len(m.stack)] = f] ELSE m

Goto(m, label) == Store(m, [Top(m) EXCEPT !.pc = label])

\* Call method fn with argument arg; the caller resumes at label.
Call(m, fn, arg, label) ==
    IF Running(m)
    THEN [m EXCEPT !.stack = Append([@ EXCEPT ![Len(@)].pc = label], Frame(fn, arg))]
    ELSE m

\* return value: the frame is popped and the caller reads the value.
Return(m, value) ==
    IF Running(m)
    THEN [m EXCEPT !.stack = SubSeq(@, 1, Len(@) - 1),
                   !.ret = value,
                   !.status = IF Len(m.stack) = 1 THEN "returned" ELSE @]
    ELSE m

\* Parser.next: this.currentToken = this.lexer.nextToken().  An undefined token
\* fails at the parser's next read of currentToken.type or currentToken.value,
\* which every path reaches before parse() returns.
took(m, r) ==
    IF r.thrown THEN Throw(m, "Unrecognized character")
    ELSE IF r.token.cls = "undefined" THEN Throw(m, "TypeError")
    ELSE [m EXCEPT !.position = r.position, !.line = r.line,
                   !.column = r.column, !.currentToken = r.token]

next(m) ==
    IF Running(m) THEN took(m, nextToken(input, m.position, m.line, m.column)) ELSE m

expect(m, tokenType) ==
    IF Running(m)
    THEN IF m.currentToken.type # tokenType THEN Throw(m, "Expected") ELSE next(m)
    ELSE m

isAdditiveOperator(m) == m.currentToken.type = "-" \/ m.currentToken.type = "+"

isMultiplyDivisionOrModuloOperator(m) ==
    m.currentToken.type = "*" \/ m.currentToken.type = "/" \/ m.currentToken.type = "%"

isNumber(m) == m.currentToken.type = "decimal" \/ m.currentToken.type = "integer"

isConstant(m) == m.currentToken.type \in {"null", "true", "false"}

\* The test parseBlock makes before it parses a statement.
startsStatement(m) ==
    /\ m.currentToken.value # <<>>
    /\ m.currentToken.value # <<"\n">>
    /\ m.currentToken.value # <<";">>

isSeparator(m) == m.currentToken.value = <<"\n">> \/ m.currentToken.value = <<";">>

(***************************************************************************)
(* The methods of the Parser.  Each *Step operator is the method's code    *)
(* from the label of its frame up to its next call of a parse* method or   *)
(* its return; a loop of the method is re-entered at the label "loop".     *)
(* The frame's params holds the method's list local (blocks, params,       *)
(* args, content, keyValuePairs).                                          *)
(***************************************************************************)
parseStep(m) ==
    LET f == Top(m)
    IN CASE f.pc = "start" -> Call(m, "parseBlock", UndefinedNode, "node")
         [] f.pc = "node" -> Return(m, m.ret)

\* parseBlock as it would be if the pending statement were pushed at every separator,
\* the test blocks.length === 0 left out: the variant C16 must tell from the parser.
parseBlockStepPushAlways(m) ==
    LET f == Top(m)
        finish(mm) ==
            LET g == Top(mm)
            IN IF Len(g.params) > 0 THEN Return(mm, BlockNode(g.params))
               ELSE Return(mm, g.node)
        body(m1) ==
            IF ~Running(m1) THEN m1
            ELSE IF m1.currentToken.type = "EndOfInput" THEN finish(m1)
            ELSE IF startsStatement(m1)
            THEN Call(m1, "parseAssignment", UndefinedNode, "statement")
            ELSE m1
        loop(mm) ==
            LET g == Top(mm)
            IN IF isSeparator(mm)
               THEN body(next(Store(mm, IF g.node # UndefinedNode
                                        THEN [g EXCEPT !.params = Append(@, g.node), !.pc = "loop"]
                                        ELSE [g EXCEPT !.pc = "loop"])))
               ELSE finish(mm)
    IN CASE f.pc = "start" ->
              IF startsStatement(m)
              THEN Call(m, "parseAssignment", UndefinedNode, "first")
              ELSE loop(m)
         [] f.pc = "first" -> loop(Store(m, [f EXCEPT !.node = m.ret]))
         [] f.pc = "loop" -> loop(m)
         [] f.pc = "statement" ->
              loop(Store(m, [f EXCEPT !.node = m.ret,
                                      !.params = IF m.ret # UndefinedNode
                                                 THEN Append(@, m.ret) ELSE @]))

parseBlockStep(m) ==
    LET f == Top(m)
        finish(mm) ==
            LET g == Top(mm)
            IN IF Len(g.params) > 0 THEN Return(mm, BlockNode(g.params))
               ELSE Return(mm, g.node)
        body(m1) ==
            IF ~Running(m1) THEN m1
            ELSE IF m1.currentToken.type = "EndOfInput" THEN finish(m1)
            ELSE IF startsStatement(m1)
            THEN Call(m1, "parseAssignment", UndefinedNode, "statement")
            ELSE m1
        loop(mm) ==
            LET g == Top(mm)
            IN IF isSeparator(mm)
               THEN body(next(Store(mm, IF Len(g.params) = 0 /\ g.node # UndefinedNode
                                        THEN [g EXCEPT !.params = <<g.node>>, !.pc = "loop"]
                                        ELSE [g EXCEPT !.pc = "loop"])))
               ELSE finish(mm)
    IN CASE f.pc = "start" ->
              IF startsStatement(m)
              THEN Call(m, "parseAssignment", UndefinedNode, "first")
              ELSE loop(m)
         [] f.pc = "first" -> loop(Store(m, [f EXCEPT !.node = m.ret]))
         [] f.pc = "loop" -> loop(m)
         [] f.pc = "statement" ->
              loop(Store(m, [f EXCEPT !.node = m.ret,
                                      !.params = IF m.ret # UndefinedNode
                                                 THEN Append(@, m.ret) ELSE @]))

\* The keys of the operators table of parseRelational.
operators == {<<"=", "=">>, <<"!", "=">>, <<"<">>, <<">">>, <<"<", "=">>, <<">", "=">>}

\* operators[value] also finds what the table inherits from Object.prototype.
inheritedKeys ==
    {<<"c", "o", "n", "s", "t", "r", "u", "c", "t", "o", "r">>,
     <<"t", "o", "S", "t", "r", "i", "n", "g">>,
     <<"v", "a", "l", "u", "e", "O", "f">>,
     <<"h", "a", "s", "O", "w", "n", "P", "r", "o", "p", "e", "r", "t", "y">>,
     <<"i", "s", "P", "r", "o", "t", "o", "t", "y", "p", "e", "O", "f">>,
     <<"p", "r", "o", "p", "e", "r", "t", "y", "I", "s", "E", "n", "u", "m", "e", "r", "a", "b", "l", "e">>,
     <<"t", "o", "L", "o", "c", "a", "l", "e", "S", "t", "r", "i", "n", "g">>,
     <<"_", "_", "p", "r", "o", "t", "o", "_", "_">>}

\* parseRelational as it would be without the case of two operands: the variant C19
\* must tell from the parser.
parseRelationalStepNoBinary(m) ==
    LET f == Top(m)
        loop(mm) ==
            LET g == Top(mm)
            IN IF mm.currentToken.value \in operators \cup inheritedKeys
               THEN LET cond == mm.currentToken.value
                        pushed == [g EXCEPT !.conditionals = Append(@, cond)]
                    IN Call(next(Store(mm, pushed)), "parseAddSubtract", UndefinedNode, "operand")
               ELSE IF Len(g.params) = 1 THEN Return(mm, g.params[1])
               ELSE Return(mm, RelationalNode(g.conditionals, g.params))
    IN CASE f.pc = "start" -> Call(m, "parseAddSubtract", UndefinedNode, "first")
         [] f.pc = "first" -> loop(Store(m, [f EXCEPT !.params = <<m.ret>>]))
         [] f.pc = "operand" -> loop(Store(m, [f EXCEPT !.params = Append(@, m.ret)]))

parseRelationalStep(m) ==
    LET f == Top(m)
        loop(mm) ==
            LET g == Top(mm)
            IN IF mm.currentToken.value \in operators \cup inheritedKeys
               THEN LET cond == mm.currentToken.value
                        pushed == [g EXCEPT !.conditionals = Append(@, cond)]
                    IN Call(next(Store(mm, pushed)), "parseAddSubtract", UndefinedNode, "operand")
               ELSE IF Len(g.params) = 1 THEN Return(mm, g.params[1])
               ELSE IF Len(g.params) = 2
               THEN Return(mm, OperatorNode(g.conditionals[1], Str(g.conditionals[1]),
                                            g.params[1], g.params[2]))
               ELSE Return(mm, RelationalNode(g.conditionals, g.params))
    IN CASE f.pc = "start" -> Call(m, "parseAddSubtract", UndefinedNode, "first")
         [] f.pc = "first" -> loop(Store(m, [f EXCEPT !.params = <<m.ret>>]))
         [] f.pc = "operand" -> loop(Store(m, [f EXCEPT !.params = Append(@, m.ret)]))

greetings ==
    {<<"h", "e", "l", "l", "o">>, <<"h", "i">>, <<"h", "o", "l", "a">>,
     <<"a", "l", "o", "h", "a">>}

\* args[index] = arg.name for every argument of a call.
argNames(args) == [i \in 1..Len(args) |-> args[i].name]

parseAssignmentStep(m) ==
    LET f == Top(m)
        assign(m1, node) ==
                 IF ~Running(m1) THEN m1
                 ELSE IF m1.currentToken.value = <<"=">>
                 THEN IF node = UndefinedNode
                      THEN \* node.isSymbolNode() of undefined
                           Throw(m1, "TypeError")
                      ELSE IF isSymbolNode(node)
                      THEN Call(next(m1), "parseAssignment", UndefinedNode, "value")
                      ELSE IF ~answers(node, "FunctionCallNode")
                      THEN \* node.isFunctionCallNode is not a function
                           Throw(m1, "TypeError")
                      ELSE IF isFunctionCallNode(node) /\ isSymbolNode(node.identifier)
                              /\ \E i \in 1..Len(node.args) : node.args[i] = UndefinedNode
                      THEN \* arg.isSymbolNode() of undefined, inside forEach
                           Throw(m1, "TypeError")
                      ELSE IF isFunctionCallNode(node) /\ isSymbolNode(node.identifier)
                              /\ \A i \in 1..Len(node.args) : isSymbolNode(node.args[i])
                      THEN Call(expect(next(Store(m1, [Top(m1) EXCEPT
                                                         !.name = node.identifier.name,
                                                         !.params = argNames(node.args)])),
                                       "{"),
                                "parseBlock", UndefinedNode, "body")
                      ELSE IF ~answers(node, "AccessorNode")
                      THEN \* node.isAccessorNode is not a function
                           Throw(m1, "TypeError")
                      ELSE IF isAccessorNode(node)
                      THEN Call(next(m1), "parseAssignment", UndefinedNode, "accessorValue")
                      ELSE Throw(m1, "Invalid left hand side of assignment operator =")
                 ELSE Return(m1, node)
    IN CASE f.pc = "start" -> Call(m, "parseWhileLoop", UndefinedNode, "node")
         [] f.pc = "node" ->
              assign(IF m.currentToken.value \in greetings
                     THEN next(Store(m, [f EXCEPT !.node = m.ret, !.firstAssignment = TRUE]))
                     ELSE Store(m, [f EXCEPT !.node = m.ret]),
                     m.ret)
         [] f.pc = "value" ->
              Return(m, AssignmentNode(SymbolNode(f.node.name), m.ret, f.firstAssignment))
         [] f.pc = "body" ->
              Return(expect(m, "}"),
                     FunctionAssignmentNode(f.name, f.params, m.ret, f.firstAssignment))
         [] f.pc = "accessorValue" ->
              Return(m, AssignmentNode(f.node, m.ret, f.firstAssignment))

parseWhileLoopStep(m) ==
    LET f == Top(m)
        loop(mm) ==
            IF mm.currentToken.type = "while"
            THEN Call(expect(next(mm), "("), "parseAssignment", UndefinedNode, "condition")
            ELSE Return(mm, Top(mm).node)
    IN CASE f.pc = "start" -> Call(m, "parseConditional", UndefinedNode, "node")
         [] f.pc = "node" -> loop(Store(m, [f EXCEPT !.node = m.ret]))
         [] f.pc = "condition" ->
              Call(expect(expect(Store(m, [f EXCEPT !.condition = m.ret]), ")"), "{"),
                   "parseBlock", UndefinedNode, "body")
         [] f.pc = "body" ->
              loop(Store(expect(m, "}"), [f EXCEPT !.node = WhileLoopNode(f.condition, m.ret)]))

parseConditionalStep(m) ==
    LET f == Top(m)
        loop(mm) ==
            IF mm.currentToken.type = "if"
            THEN Call(expect(next(mm), "("), "parseRelational", UndefinedNode, "condition")
            ELSE Return(mm, Top(mm).node)
    IN CASE f.pc = "start" -> Call(m, "parseRelational", UndefinedNode, "node")
         [] f.pc = "node" -> loop(Store(m, [f EXCEPT !.node = m.ret]))
         [] f.pc = "condition" ->
              Call(expect(Store(m, [f EXCEPT !.condition = m.ret]), ")"),
                   "parseRelational", UndefinedNode, "trueExpr")
         [] f.pc = "trueExpr" ->
              IF m.currentToken.type = "else"
              THEN Call(next(Store(m, [f EXCEPT !.trueExpr = m.ret])),
                        "parseRelational", UndefinedNode, "falseExpr")
              ELSE loop(Store(m, [f EXCEPT !.node = ConditionalNode(f.condition, m.ret, NullNode)]))
         [] f.pc = "falseExpr" ->
              loop(Store(m, [f EXCEPT !.node = ConditionalNode(f.condition, f.trueExpr, m.ret)]))

\* parseMultiplyDivide as it would be if the right operand of '*', '/', '%' were a
\* whole additive expression: the variant C2 must tell from the parser.
parseMultiplyDivideStepLoose(m) ==
    LET f == Top(m)
        loop(mm) ==
            IF isMultiplyDivisionOrModuloOperator(mm)
            THEN LET named == [Top(mm) EXCEPT !.name = mm.currentToken.value,
                                              !.operator = mm.currentToken.type]
                 IN Call(next(Store(mm, named)), "parseAddSubtract", UndefinedNode, "right")
            ELSE Return(mm, Top(mm).node)
    IN CASE f.pc = "start" -> Call(m, "parseSymbolOrConstant", UndefinedNode, "node")
         [] f.pc = "node" -> loop(Store(m, [f EXCEPT !.node = m.ret]))
         [] f.pc = "right" ->
              loop(Store(m, [f EXCEPT !.node = OperatorNode(f.name, f.operator, f.node, m.ret)]))

parseMultiplyDivideStep(m) ==
    LET f == Top(m)
        loop(mm) ==
            IF isMultiplyDivisionOrModuloOperator(mm)
            THEN LET named == [Top(mm) EXCEPT !.name = mm.currentToken.value,
                                              !.operator = mm.currentToken.type]
                 IN Call(next(Store(mm, named)), "parseSymbolOrConstant", UndefinedNode, "right")
            ELSE Return(mm, Top(mm).node)
    IN CASE f.pc = "start" -> Call(m, "parseSymbolOrConstant", UndefinedNode, "node")
         [] f.pc = "node" -> loop(Store(m, [f EXCEPT !.node = m.ret]))
         [] f.pc = "right" ->
              loop(Store(m, [f EXCEPT !.node = OperatorNode(f.name, f.operator, f.node, m.ret)]))

\* parseAddSubtract as it would be if it recursed for its right operand, nesting
\* to the right: the variant C1 must tell from the parser.
parseAddSubtractStepRightNested(m) ==
    LET f == Top(m)
    IN CASE f.pc = "start" -> Call(m, "parseMultiplyDivide", UndefinedNode, "node")
         [] f.pc = "node" ->
              IF isAdditiveOperator(m)
              THEN Call(next(Store(m, [f EXCEPT !.node = m.ret,
                                                !.name = m.currentToken.value,
                                                !.operator = m.currentToken.type])),
                        "parseAddSubtract", UndefinedNode, "right")
              ELSE Return(m, m.ret)
         [] f.pc = "right" -> Return(m, OperatorNode(f.name, f.operator, f.node, m.ret))

parseAddSubtractStep(m) ==
    LET f == Top(m)
        loop(mm) ==
            IF isAdditiveOperator(mm)
            THEN LET named == [Top(mm) EXCEPT !.name = mm.currentToken.value,
                                              !.operator = mm.currentToken.type]
                 IN Call(next(Store(mm, named)), "parseMultiplyDivide", UndefinedNode, "right")
            ELSE Return(mm, Top(mm).node)
    IN CASE f.pc = "start" -> Call(m, "parseMultiplyDivide", UndefinedNode, "node")
         [] f.pc = "node" -> loop(Store(m, [f EXCEPT !.node = m.ret]))
         [] f.pc = "right" ->
              loop(Store(m, [f EXCEPT !.node = OperatorNode(f.name, f.operator, f.node, m.ret)]))

parseNumberStep(m) ==
    LET f == Top(m)
    IN CASE f.pc = "start" ->
              IF isNumber(m)
              THEN Return(next(m), ConstantNode(m.currentToken.value, m.currentToken.type))
              ELSE Call(m, "parseParentheses", UndefinedNode, "tail")
         [] f.pc = "tail" -> Return(m, m.ret)

parseParenthesesStep(m) ==
    LET f == Top(m)
    IN CASE f.pc = "start" ->
              IF m.currentToken.value = <<"(">>
              THEN Call(next(m), "parseAssignment", UndefinedNode, "node")
              ELSE Return(m, UndefinedNode)
         [] f.pc = "node" ->
              IF m.currentToken.value # <<")">>
              THEN Throw(m, "Parenthesis ) expected")
              ELSE Call(next(m), "parseAccessors", ParenthesisNode(m.ret), "tail")
         [] f.pc = "tail" -> Return(m, m.ret)

parseAccessorsStep(m) ==
    LET f == Top(m)
        \* the end of the '(' branch: the closing parenthesis and the call node
        close(mm) ==
            IF mm.currentToken.value # <<")">>
            THEN Throw(mm, "Parenthesis ) expected")
            ELSE LET g == Top(mm)
                 IN Store(next(mm), [g EXCEPT !.node = FunctionCallNode(g.node, g.params),
                                              !.pc = "loop"])
        \* while (this.currentToken.value === ',')
        list(mm) ==
            IF mm.currentToken.value = <<",">>
            THEN Call(next(mm), "parseAssignment", UndefinedNode, "param")
            ELSE close(mm)
        open(m1) ==
            IF ~Running(m1) THEN m1
            ELSE IF m1.currentToken.value # <<")">>
            THEN Call(m1, "parseAssignment", UndefinedNode, "param")
            ELSE close(m1)
        loop(mm) ==
            LET g == [Top(mm) EXCEPT !.params = <<>>, !.pc = "loop"]
            IN IF mm.currentToken.value = <<"(">>
               THEN open(next(Store(mm, g)))
               ELSE IF mm.currentToken.value = <<"@">>
               THEN Call(next(Store(mm, g)), "parseSymbolOrConstant", UndefinedNode, "index")
               ELSE IF mm.currentToken.value = <<".">>
               THEN \* the dot branch is empty: nothing is consumed
                    Store(mm, g)
               ELSE Return(mm, Top(mm).node)
    IN CASE f.pc = "start" -> loop(m)
         [] f.pc = "loop" -> loop(m)
         [] f.pc = "param" -> list(Store(m, [f EXCEPT !.params = Append(@, m.ret)]))
         [] f.pc = "index" -> loop(Store(m, [f EXCEPT !.node = AccessorNode(f.node, m.ret)]))

parseStringStep(m) ==
    LET f == Top(m)
    IN CASE f.pc = "start" ->
              IF m.currentToken.type = "string"
              THEN Return(next(m), ConstantNode(m.currentToken.value, m.currentToken.type))
              ELSE Call(m, "parseArray", UndefinedNode, "tail")
         [] f.pc = "tail" -> Return(m, m.ret)

parseArrayStep(m) ==
    LET f == Top(m)
        list(mm) ==
            IF mm.currentToken.value = <<",">>
            THEN Call(next(mm), "parseAssignment", UndefinedNode, "content")
            ELSE Return(expect(mm, "]"), ArrayNode(Top(mm).params))
        open(m1) ==
            IF ~Running(m1) THEN m1
            ELSE IF m1.currentToken.value # <<"]">>
            THEN Call(m1, "parseAssignment", UndefinedNode, "content")
            ELSE Return(expect(m1, "]"), ArrayNode(<<>>))
    IN CASE f.pc = "start" ->
              IF m.currentToken.type = "["
              THEN open(next(m))
              ELSE Call(m, "parseMap", UndefinedNode, "tail")
         [] f.pc = "content" -> list(Store(m, [f EXCEPT !.params = Append(@, m.ret)]))
         [] f.pc = "tail" -> Return(m, m.ret)

parseMapStep(m) ==
    LET f == Top(m)
        list(mm) ==
            IF mm.currentToken.value = <<",">>
            THEN Call(next(mm), "parseAssignment", UndefinedNode, "pair")
            ELSE Return(expect(mm, "}"), MapNode(Top(mm).params))
        \* const {symbol, value} = this.parseAssignment()
        pair(mm) ==
            IF mm.ret = UndefinedNode THEN Throw(mm, "TypeError")
            ELSE IF mm.ret.kind # "AssignmentNode" \/ mm.ret.value = UndefinedNode
            THEN Throw(mm, "Syntax error parsing map")
            ELSE list(Store(mm, [Top(mm) EXCEPT
                                   !.params = Append(@, <<mm.ret.symbol, mm.ret.value>>)]))
        open(m1) ==
            IF ~Running(m1) THEN m1
            ELSE IF m1.currentToken.value # <<"}">>
            THEN Call(m1, "parseAssignment", UndefinedNode, "pair")
            ELSE Return(expect(m1, "}"), MapNode(<<>>))
    IN CASE f.pc = "start" ->
              IF m.currentToken.type = "{"
              THEN open(next(m))
              ELSE Call(m, "parseNumber", UndefinedNode, "tail")
         [] f.pc = "pair" -> pair(m)
         [] f.pc = "tail" -> Return(m, m.ret)

parseSymbolOrConstantStep(m) ==
    LET f == Top(m)
    IN CASE f.pc = "start" ->
              IF isConstant(m)
              THEN Return(next(m), ConstantNode(m.currentToken.value, m.currentToken.type))
              ELSE IF m.currentToken.type = "identifier"
              THEN Call(next(m), "parseAccessors", SymbolNode(m.currentToken.value), "tail")
              ELSE Call(m, "parseString", UndefinedNode, "tail")
         [] f.pc = "tail" -> Return(m, m.ret)

(***************************************************************************)
(* The source texts the parser is run on.                                  *)
(***************************************************************************)
\* Join the lexemes of a chain with a separator between neighbours.
RECURSIVE Join(_, _)
Join(lexemes, sep) ==
    IF Len(lexemes) = 0 THEN <<>>
    ELSE IF Len(lexemes) = 1 THEN lexemes[1]
    ELSE lexemes[1] \o sep \o Join(Tail(lexemes), sep)

ArithOperands == {<<"7">>, <<"4">>}

ArithOperators == {<<"+">>, <<"-">>, <<"*">>, <<"/">>, <<"%">>}

\* o1 op1 o2 ... on as a sequence of lexemes, n operands.
RECURSIVE Chains(_)
Chains(n) ==
    IF n = 1 THEN {<<o>> : o \in ArithOperands}
    ELSE {c \o <<op, o>> : c \in Chains(n - 1), op \in ArithOperators, o \in ArithOperands}

ArithChains == UNION {Chains(n) : n \in 1..MaxOperands}

ArithInputs == {Join(c, sep) : c \in ArithChains, sep \in {<<>>, <<" ">>}}

RelOperands == {<<"1">>, <<"a">>}

RelOperators == {<<"<">>, <<"<", "=">>, <<"=", "=">>}

\* o1 op1 o2 ... on with comparison operators, n operands.
RECURSIVE RelChains(_)
RelChains(n) ==
    IF n = 1 THEN {<<o>> : o \in RelOperands}
    ELSE {c \o <<op, o>> : c \in RelChains(n - 1), op \in RelOperators, o \in RelOperands}

RelInputs == {Join(c, <<" ">>) : c \in UNION {RelChains(n) : n \in 1..MaxOperands}}

ParseAlphabet == {"a", "1", "=", "(", ")", ".", "@", ",", "+", "\n"}

ShortInputs == TextsUpTo(ParseAlphabet, MaxParseLen)

ExampleInputs ==
    {<<"n", "o", "d", "e", ".", "a", "d", "d", "(", "4", "2", ")", ".", "p", "u", "s", "h", "(", "\"", "H", "e", "l", "l", "o", "\"", ")">>,
     <<"a", " ", "=">>,
     <<"a", " ", "=", " ", "1">>,
     <<"a", " ", "=", " ", "b", " ", "=", " ", "1">>,
     <<"h", "e", "l", "l", "o", " ", "a", " ", "=", " ", "1">>,
     <<"7", " ", "-", " ", "4", " ", "+", " ", "2">>,
     <<"1", " ", "+", " ", "3", " ", "*", " ", "5", " ", "-", " ", "8">>,
     <<"1", " ", "+", " ", "(", "2", " ", "-", " ", "3", ".", "1", "4", ")">>,
     <<"f", "(", "1", ")", "(", "2", ")">>,
     <<"f", "(", "a", ",", " ", "b", ")">>,
     <<"a", "@", "b", "@", "c">>,
     <<"a", "@", "b", "(", "1", ")">>,
     <<"a", "@", "b", " ", "=", " ", "1">>,
     <<"(", "1", ")", "(", "2", ")">>,
     <<"(", "a", ")", ".", "b">>,
     <<"f", "(", "x", ",", " ", "y", ")", " ", "=", " ", "{", "x", " ", "+", " ", "y", "}">>,
     <<"f", "(", "x", ")", " ", "=", " ", "{", "x", "\n", "y", "}">>,
     <<"f", "(", "1", ")", " ", "=", " ", "{", "x", "}">>,
     <<"[", "1", ",", " ", "2", "]">>,
     <<"[", "]">>,
     <<"{", "a", " ", "=", " ", "1", ",", " ", "b", " ", "=", " ", "2", "}">>,
     <<"{", "}">>,
     <<"{", "1", "}">>,
     <<"a", " ", "w", "h", "i", "l", "e", " ", "(", "b", ")", " ", "{", "c", "}">>,
     <<"w", "h", "i", "l", "e", " ", "(", "t", "r", "u", "e", ")", " ", "{", "1", "}">>,
     <<"a", " ", "i", "f", " ", "(", "b", ")", " ", "c", " ", "e", "l", "s", "e", " ", "d">>,
     <<"i", "f", " ", "(", "t", "r", "u", "e", ")", " ", "1", " ", "e", "l", "s", "e", " ", "2">>,
     <<"i", "f", " ", "(", "a", ")", " ", "b">>,
     <<"1", " ", "<", " ", "2">>,
     <<"1", " ", "<", " ", "2", " ", "<", "=", " ", "3">>,
     <<"a", " ", "=", "=", " ", "b", " ", "!", "=", " ", "c">>,
     <<"x", "\n", "y", ";", "z">>,
     <<"\n", "\n", "x", "\n", "\n", "y", "\n">>,
     <<"\"", "s", "\"", " ", "+", " ", "n", "u", "l", "l">>,
     <<"t", "r", "u", "e">>,
     <<"1", " ", "2">>,
     <<"1", " ", "+">>,
     <<"*", " ", "2">>,
     <<"f", "(", ",", ")">>,
     <<"a", " ", "&", " ", "b">>,
     <<"l", "e", "t", " ", "a", ":", " ", "I", "n", "t", " ", "=", " ", "2", ",", " ", "b", " ", "=", " ", "3", " ", "i", "n", " ", "a", " ", "+", " ", "b">>,
     <<"l", "e", "t", " ", "a", " ", "=", " ", "1", " ", "i", "n", " ", "a">>,
     <<"-", "4", "2">>,
     <<"!", "t", "r", "u", "e">>,
     <<"-", " ", "4">>,
     <<"!", "a">>,
     <<"-", "a", " ", "+", " ", "1">>,
     <<"x", ";">>,
     <<";", "x">>,
     <<"x", ";", ";", "y">>,
     <<"x", "\n">>,
     <<"a", " ", "c", "o", "n", "s", "t", "r", "u", "c", "t", "o", "r", " ", "b">>,
     <<"1", " ", "<", " ", "2", " ", ">", " ", "3", " ", ">", "=", " ", "4", " ", "!", "=", " ", "5">>,
     <<"a", " ", ">", " ", "b">>,
     <<"a", " ", ")">>,
     <<"x", " ", "h", "e", "l", "l", "o">>,
     <<"a", " ">>}

ParseInputs == ArithInputs \cup RelInputs \cup ShortInputs \cup ExampleInputs

(***************************************************************************)
(* The parser as a state machine: new Parser(input) and then parse().      *)
(***************************************************************************)
\* The constructor: a lexer at the start of the input, and the first token.
Constructed ==
    next([position |-> 0, line |-> 0, column |-> 0, currentToken |-> UndefinedToken,
          stack |-> <<Frame("parse", UndefinedNode)>>, ret |-> UndefinedNode,
          status |-> "running", error |-> NoError])

Start(m) ==
    /\ position = m.position
    /\ line = m.line
    /\ column = m.column
    /\ currentToken = m.currentToken
    /\ stack = m.stack
    /\ ret = m.ret
    /\ status = m.status
    /\ error = m.error

Init ==
    /\ input \in ParseInputs
    /\ tokens = <<>>
    /\ everyNodeAnswers \in BOOLEAN
    /\ Start(Constructed)

Active(fn) == status = "running" /\ stack[Len(stack)].fn = fn

parse == Active("parse") /\ Become(parseStep(Machine))

parseBlock == Active("parseBlock") /\ Become(parseBlockStep(Machine))

parseRelational == Active("parseRelational") /\ Become(parseRelationalStep(Machine))

parseAssignment == Active("parseAssignment") /\ Become(parseAssignmentStep(Machine))

parseWhileLoop == Active("parseWhileLoop") /\ Become(parseWhileLoopStep(Machine))

parseConditional == Active("parseConditional") /\ Become(parseConditionalStep(Machine))

parseMultiplyDivide == Active("parseMultiplyDivide") /\ Become(parseMultiplyDivideStep(Machine))

parseAddSubtract == Active("parseAddSubtract") /\ Become(parseAddSubtractStep(Machine))

parseNumber == Active("parseNumber") /\ Become(parseNumberStep(Machine))

parseParentheses == Active("parseParentheses") /\ Become(parseParenthesesStep(Machine))

parseAccessors == Active("parseAccessors") /\ Become(parseAccessorsStep(Machine))

parseString == Active("parseString") /\ Become(parseStringStep(Machine))

parseArray == Active("parseArray") /\ Become(parseArrayStep(Machine))

parseMap == Active("parseMap") /\ Become(parseMapStep(Machine))

parseSymbolOrConstant == Active("parseSymbolOrConstant") /\ Become(parseSymbolOrConstantStep(Machine))

Next ==
    \/ parse
    \/ parseBlock
    \/ parseRelational
    \/ parseAssignment
    \/ parseWhileLoop
    \/ parseConditional
    \/ parseMultiplyDivide
    \/ parseAddSubtract
    \/ parseNumber
    \/ parseParentheses
    \/ parseAccessors
    \/ parseString
    \/ parseArray
    \/ parseMap
    \/ parseSymbolOrConstant

Spec == Init /\ [][Next]_vars

\* The step the running method takes from a parser state.
Step(m) ==
    CASE Top(m).fn = "parse" -> parseStep(m)
      [] Top(m).fn = "parseBlock" -> parseBlockStep(m)
      [] Top(m).fn = "parseRelational" -> parseRelationalStep(m)
      [] Top(m).fn = "parseAssignment" -> parseAssignmentStep(m)
      [] Top(m).fn = "parseWhileLoop" -> parseWhileLoopStep(m)
      [] Top(m).fn = "parseConditional" -> parseConditionalStep(m)
      [] Top(m).fn = "parseMultiplyDivide" -> parseMultiplyDivideStep(m)
      [] Top(m).fn = "parseAddSubtract" -> parseAddSubtractStep(m)
      [] Top(m).fn = "parseNumber" -> parseNumberStep(m)
      [] Top(m).fn = "parseParentheses" -> parseParenthesesStep(m)
      [] Top(m).fn = "parseAccessors" -> parseAccessorsStep(m)
      [] Top(m).fn = "parseString" -> parseStringStep(m)
      [] Top(m).fn = "parseArray" -> parseArrayStep(m)
      [] Top(m).fn = "parseMap" -> parseMapStep(m)
      [] Top(m).fn = "parseSymbolOrConstant" -> parseSymbolOrConstantStep(m)

\* The parser is in a loop that runs on without changing anything: parse()
\* neither returns nor throws from here.
Spinning == status = "running" /\ Step(Machine) = Machine

(***************************************************************************)
(* Reading a tree.                                                         *)
(***************************************************************************)
\* The children of a node, in source order.
Children(n) ==
    CASE n.kind = "OperatorNode" -> <<n.left, n.right>>
      [] n.kind = "RelationalNode" -> n.params
      [] n.kind = "ConditionalNode" -> <<n.condition, n.trueExpr, n.falseExpr>>
      [] n.kind = "WhileLoopNode" -> <<n.condition, n.body>>
      [] n.kind = "BlockNode" -> n.blocks
      [] n.kind = "AssignmentNode" -> <<n.symbol, n.value>>
      [] n.kind = "FunctionAssignmentNode" -> <<n.value>>
      [] n.kind = "FunctionCallNode" -> <<n.identifier>> \o n.args
      [] n.kind = "AccessorNode" -> <<n.object, n.index>>
      [] n.kind = "ParenthesisNode" -> <<n.content>>
      [] n.kind = "ArrayNode" -> n.content
      [] n.kind = "MapNode" ->
           [i \in 1..(2 * Len(n.keyValuePairs)) |->
              n.keyValuePairs[(i + 1) \div 2][2 - (i % 2)]]
      [] OTHER -> <<>>

\* Some AssignmentNode of the tree has no value.
RECURSIVE HasPartialAssignment(_)
HasPartialAssignment(n) ==
    \/ n.kind = "AssignmentNode" /\ n.value = UndefinedNode
    \/ \E i \in 1..Len(Children(n)) : HasPartialAssignment(Children(n)[i])

\* The lexemes of a text whose lexemes are single characters: all but the blanks.
Lexemes(text) == SelectSeq(text, LAMBDA c : c # " ")

\* o1 op1 o2 ... on, n >= 2, single-digit literals and operators from ops,
\* written with no blank or with one blank between neighbours.
IsChain(text, ops) ==
    /\ Len(Lexemes(text)) >= 3
    /\ Len(Lexemes(text)) % 2 = 1
    /\ \A i \in 1..Len(Lexemes(text)) :
          IF i % 2 = 1 THEN Lexemes(text)[i] \in Digits ELSE Lexemes(text)[i] \in ops
    /\ \/ text = Lexemes(text)
       \/ text = Join([i \in 1..Len(Lexemes(text)) |-> <<Lexemes(text)[i]>>], <<" ">>)

Literal(digit) == ConstantNode(<<digit>>, "integer")

\* The left-nested tree of o1 op1 o2 ... on.
RECURSIVE LeftNested(_)
LeftNested(l) ==
    IF Len(l) = 1 THEN Literal(l[1])
    ELSE OperatorNode(<<l[Len(l) - 1]>>, l[Len(l) - 1],
                      LeftNested(SubSeq(l, 1, Len(l) - 2)), Literal(l[Len(l)]))

\* The position of the last additive operator of a chain, 0 when it has none.
RECURSIVE LastAdditive(_, _)
LastAdditive(l, i) ==
    IF i < 2 THEN 0
    ELSE IF l[i] \in {"+", "-"} THEN i
    ELSE LastAdditive(l, i - 2)

\* The tree of a chain by precedence: the chain splits at its additive operators
\* into runs of '*', '/', '%', each run one left-nested operand.
RECURSIVE ByPrecedence(_)
ByPrecedence(l) ==
    IF LastAdditive(l, Len(l) - 1) = 0 THEN LeftNested(l)
    ELSE OperatorNode(<<l[LastAdditive(l, Len(l) - 1)]>>, l[LastAdditive(l, Len(l) - 1)],
                      ByPrecedence(SubSeq(l, 1, LastAdditive(l, Len(l) - 1) - 1)),
                      LeftNested(SubSeq(l, LastAdditive(l, Len(l) - 1) + 1, Len(l))))

(***************************************************************************)
(* C1.  o1 op1 o2 ... on with every op '+' or '-' and every o a numeric     *)
(* literal parses to the left-nested tree: the root carries the last       *)
(* operator, its right child is on and its left child the tree of the      *)
(* rest.  parse() neither throws nor runs on for such an input.            *)
(***************************************************************************)
C1_LeftAssociative ==
    IsChain(input, {"+", "-"}) =>
        /\ status # "thrown"
        /\ ~Spinning
        /\ status = "returned" => ret = LeftNested(Lexemes(input))

C1_Witness ==
    /\ input = <<"7", " ", "-", " ", "4", " ", "+", " ", "2">>
    /\ status = "returned"
    /\ ret = OperatorNode(<<"+">>, "+",
                          OperatorNode(<<"-">>, "-", Literal("7"), Literal("4")),
                          Literal("2"))

(***************************************************************************)
(* C2.  In a chain that mixes '+', '-' with '*', '/', '%', every maximal   *)
(* run of multiplicative operators is one left-nested operand of the       *)
(* additive operators around it.                                           *)
(***************************************************************************)
IsMixedChain(text) ==
    /\ IsChain(text, {"+", "-", "*", "/", "%"})
    /\ \E i \in 1..Len(text) : text[i] \in {"+", "-"}
    /\ \E i \in 1..Len(text) : text[i] \in {"*", "/", "%"}

C2_Precedence ==
    IsMixedChain(input) =>
        /\ status # "thrown"
        /\ ~Spinning
        /\ status = "returned" => ret = ByPrecedence(Lexemes(input))

C2_Witness ==
    /\ input = <<"1", " ", "+", " ", "3", " ", "*", " ", "5", " ", "-", " ", "8">>
    /\ status = "returned"
    /\ ret = OperatorNode(<<"-">>, "-",
                          OperatorNode(<<"+">>, "+", Literal("1"),
                                       OperatorNode(<<"*">>, "*", Literal("3"), Literal("5"))),
                          Literal("8"))

(***************************************************************************)
(* C3.  The chained method call node.add(42).push("Hello") parses to the   *)
(* call of push, whose callee is the call of add on the symbol node, each  *)
(* call with its own arguments.                                            *)
(***************************************************************************)
ChainedCall == <<"n", "o", "d", "e", ".", "a", "d", "d", "(", "4", "2", ")", ".", "p", "u", "s", "h", "(", "\"", "H", "e", "l", "l", "o", "\"", ")">>

C3_ChainedCall ==
    input = ChainedCall =>
        /\ status # "thrown"
        /\ ~Spinning
        /\ status = "returned" =>
              /\ ret.kind = "FunctionCallNode"
              /\ Len(ret.args) = 1
              /\ ret.args[1] = ConstantNode(<<"\"", "H", "e", "l", "l", "o", "\"">>, "string")
              /\ \E i \in 1..Len(Children(ret.identifier)) :
                    /\ Children(ret.identifier)[i].kind = "FunctionCallNode"
                    /\ Children(ret.identifier)[i].args = <<ConstantNode(<<"4", "2">>, "integer")>>

(***************************************************************************)
(* C4.  parse() terminates on every input: no loop of the parser goes      *)
(* round without consuming a token, so the running parser always moves to  *)
(* a new state.                                                            *)
(***************************************************************************)
C4_ParseTerminates == status = "running" => Step(Machine) # Machine

(***************************************************************************)
(* C6.  An assignment with nothing after '=' raises an error: parse()      *)
(* never returns a tree with an AssignmentNode that has no value.          *)
(***************************************************************************)
C6_NoPartialAssignment == status = "returned" => ~HasPartialAssignment(ret)

(***************************************************************************)
(* Reading a text.                                                         *)
(***************************************************************************)
AllDigits(text) == \A i \in 1..Len(text) : text[i] \in Digits

\* The cursor reaches s from pos over blanks only (s is 0-based, as pos is).
BlanksBetween(text, pos, s) ==
    \A i \in pos..(s - 1) : isWhitespace(CharAt(text, i))

\* The text has no '"' after the one at s.
Unterminated(text, s) ==
    /\ s < Len(text)
    /\ CharAt(text, s) = "\""
    /\ \A i \in (s + 1)..(Len(text) - 1) : CharAt(text, i) # "\""

(***************************************************************************)
(* C5.  tokenize() terminates: a call of nextToken() never moves the       *)
(* cursor back nor past the end of the input, and a call that returns a    *)
(* token other than EndOfInput moves it forward.  A string literal with no *)
(* closing quote is one String token that runs to the end of the input,    *)
(* and the call after it returns EndOfInput.                               *)
(***************************************************************************)
C5_Progress(r) ==
    /\ position <= r.position
    /\ r.position <= Len(input)
    /\ (~r.thrown /\ r.token.cls # "undefined" /\ r.token # EndOfInputToken)
          => r.position > position
    /\ \A s \in position..(Len(input) - 1) :
          (BlanksBetween(input, position, s) /\ Unterminated(input, s)) =>
              /\ ~r.thrown
              /\ r.token.cls = "Token"
              /\ r.token.type = TokenType.String
              /\ r.token.value = SubSeq(input, s + 1, Len(input))
              /\ r.position = Len(input)
              /\ nextToken(input, r.position, r.line, r.column) =
                    Lexed(EndOfInputToken, r.position, r.line, r.column)

C5_TokenizeTerminates ==
    status = "running" => C5_Progress(nextToken(input, position, line, column))

C5_Witness ==
    /\ input = <<"\"", "a">>
    /\ status = "returned"
    /\ tokens = <<Token(TokenType.String, <<"\"", "a">>, 0, 0)>>
    /\ position = 2

(***************************************************************************)
(* C7.  A '&' not followed by '&', or a '|' not followed by '|', makes     *)
(* nextToken() throw: it hands back no Token, no Error value and no        *)
(* undefined.                                                              *)
(***************************************************************************)
LoneBooleanAt(text, pos) ==
    /\ pos < Len(text)
    /\ CharAt(text, pos) \in {"&", "|"}
    /\ pos + 1 < Len(text) => CharAt(text, pos + 1) # CharAt(text, pos)

C7_LoneBooleanThrows ==
    (status = "running" /\ LoneBooleanAt(input, position)) =>
        nextToken(input, position, line, column).thrown

(***************************************************************************)
(* C8.  An input of decimal digits only lexes to one token: its type is    *)
(* Integer, its value the whole input, and the cursor is left at the       *)
(* length of the input.                                                    *)
(***************************************************************************)
C8_IntegerLiteral ==
    (input # <<>> /\ AllDigits(input)) =>
        /\ status # "thrown"
        /\ status = "returned" => tokens # <<>>
        /\ tokens # <<>> =>
              /\ tokens = <<Token(TokenType.Integer, input, 0, 0)>>
              /\ position = Len(input)

C8_Witness ==
    /\ input = <<"1", "2">>
    /\ status = "returned"
    /\ tokens = <<Token(TokenType.Integer, <<"1", "2">>, 0, 0)>>
    /\ position = 2

(***************************************************************************)
(* C9.  Digits, '.', digits lex to one Decimal token of the whole input.   *)
(* Digits and a '.' with no digit after it lex to the Integer of the       *)
(* digits and then a Dot, never to a Decimal.                              *)
(***************************************************************************)
IsDecimalText(text) ==
    \E k \in 2..(Len(text) - 1) :
        /\ text[k] = "."
        /\ \A i \in 1..Len(text) : i # k => text[i] \in Digits

IsTrailingDotText(text) ==
    /\ Len(text) >= 2
    /\ text[Len(text)] = "."
    /\ AllDigits(SubSeq(text, 1, Len(text) - 1))

C10_Relexed(t, r) ==
    /\ ~r.thrown
    /\ r.token.cls = "Token"
    /\ r.token.type = t.type
    /\ r.token.value = t.value
    /\ nextToken(t.value, r.position, r.line, r.column) =
          Lexed(EndOfInputToken, r.position, r.line, r.column)

C10_RoundTrip ==
    \A i \in 1..Len(tokens) :
        tokens[i].cls = "Token" => C10_Relexed(tokens[i], nextToken(tokens[i].value, 0, 0, 0))

C10_Witness ==
    /\ input = <<"<", "=", "a">>
    /\ status = "returned"
    /\ tokens = <<Token(TokenType.LessOrEqual, <<"<", "=">>, 0, 0),
                  Token(TokenType.Identifier, <<"a">>, 0, 2)>>

(***************************************************************************)
(* C11.  When nothing but blanks is left from the cursor on (the cursor at *)
(* the end included), nextToken() returns EndOfInput, and the call after   *)
(* it returns EndOfInput again with position, line and column unchanged.   *)
(***************************************************************************)
OnlyBlanksLeft(text, pos) ==
    \A i \in pos..(Len(text) - 1) : isWhitespace(CharAt(text, i))

C11_IsEnd(r) ==
    /\ ~r.thrown
    /\ r.token = EndOfInputToken
    /\ nextToken(input, r.position, r.line, r.column) =
          Lexed(EndOfInputToken, r.position, r.line, r.column)

C11_EndOfInput ==
    (status = "running" /\ OnlyBlanksLeft(input, position)) =>
        C11_IsEnd(nextToken(input, position, line, column))

(***************************************************************************)
(* C12.  The tokens tokenize() has collected are, in order, what the       *)
(* successive calls of nextToken() from the start of the input returned    *)
(* on the way to the cursor; tokenize() returns when nextToken() gives     *)
(* EndOfInput, and no EndOfInput token is among the tokens returned.       *)
(***************************************************************************)
RECURSIVE Produced(_, _, _, _, _)
ProducedAfter(inp, stop, r) ==
    <<r.token>> \o Produced(inp, r.position, r.line, r.column, stop)

\* What nextToken() returns call after call from the cursor (pos, ln, col) until
\* the cursor is at stop.
Produced(inp, pos, ln, col, stop) ==
    IF pos >= stop THEN <<>>
    ELSE ProducedAfter(inp, stop, nextToken(inp, pos, ln, col))

C12_TokenizeSequence ==
    status \in {"running", "returned"} =>
        /\ tokens = Produced(input, 0, 0, 0, position)
        /\ \A i \in 1..Len(tokens) : tokens[i] # EndOfInputToken
        /\ status = "returned" =>
              nextToken(input, position, line, column).token = EndOfInputToken

C12_Witness ==
    /\ input = <<"a", "+", "1">>
    /\ status = "returned"
    /\ tokens = <<Token(TokenType.Identifier, <<"a">>, 0, 0),
                  Token(TokenType.Plus, <<"+">>, 0, 1),
                  Token(TokenType.Integer, <<"1">>, 0, 2)>>

(***************************************************************************)
(* C13.  In parseAssignment, with '=' after the left-hand side: a symbol   *)
(* or an accessor is taken as the target of an assignment; a call of a     *)
(* symbol on symbols only is taken as the head of a function definition;   *)
(* every other left-hand side, no node at all included, is rejected with   *)
(* the error 'Invalid left hand side of assignment', never with another    *)
(* error.                                                                  *)
(***************************************************************************)
InvalidLeftHandSide == "Invalid left hand side of assignment operator ="

IsDefinitionHead(node) ==
    /\ node.kind = "FunctionCallNode"
    /\ node.identifier.kind = "SymbolNode"
    /\ \A i \in 1..Len(node.args) : node.args[i].kind = "SymbolNode"

IsTarget(node) == node.kind \in {"SymbolNode", "AccessorNode"} \/ IsDefinitionHead(node)

\* parseAssignment has its left-hand side in ret and '=' is the current token.
AtAssign ==
    /\ Active("parseAssignment")
    /\ Top(Machine).pc = "node"
    /\ currentToken.value = <<"=">>

C13_AssignmentTarget ==
    [][AtAssign =>
          IF IsTarget(ret)
          THEN ~(status' = "thrown" /\ error' \in {InvalidLeftHandSide, "TypeError"})
          ELSE status' = "thrown" /\ error' = InvalidLeftHandSide]_vars

(***************************************************************************)
(* C14.  A let form with k bindings parses to a LetNode with k bindings in *)
(* source order: 'let a: Int = 2, b = 3 in a + b' gives the bindings a     *)
(* and b and the body a + b.                                               *)
(***************************************************************************)
LetTwoBindings ==
    <<"l", "e", "t", " ", "a", ":", " ", "I", "n", "t", " ", "=", " ", "2", ",", " ",
      "b", " ", "=", " ", "3", " ", "i", "n", " ", "a", " ", "+", " ", "b">>

LetOneBinding == <<"l", "e", "t", " ", "a", " ", "=", " ", "1", " ", "i", "n", " ", "a">>

IsLetNode(node, k) ==
    /\ node.kind = "LetNode"
    /\ Len(node.bindings) = k

C14_LetNode ==
    /\ input = LetTwoBindings =>
          /\ status # "thrown"
          /\ status = "returned" => IsLetNode(ret, 2)
    /\ input = LetOneBinding =>
          /\ status # "thrown"
          /\ status = "returned" => IsLetNode(ret, 1)

(***************************************************************************)
(* C15.  A prefix '-' or '!' before an operand parses to a unary node that *)
(* carries the operator and, as its operand, the tree of the whole         *)
(* operand: '-42' is minus over the integer 42, '!true' is not over the    *)
(* constant true.                                                          *)
(***************************************************************************)
IsUnary(node, operator, operand) ==
    /\ "operand" \in DOMAIN node
    /\ node.operator = operator
    /\ node.operand = operand

C15_Unary ==
    /\ input = <<"-", "4", "2">> =>
          /\ status # "thrown"
          /\ status = "returned" =>
                IsUnary(ret, "-", ConstantNode(<<"4", "2">>, "integer"))
    /\ input = <<"!", "t", "r", "u", "e">> =>
          /\ status # "thrown"
          /\ status = "returned" =>
                IsUnary(ret, "!", ConstantNode(<<"t", "r", "u", "e">>, "true"))

(***************************************************************************)
(* Blocks of one-character statements.                                     *)
(***************************************************************************)
IsSeparatorChar(c) == c \in {"\n", ";"}

\* Letters and digits with a newline or ';' between any two of them.
IsBlockText(text) ==
    /\ \A i \in 1..Len(text) : text[i] \in Letters \cup Digits \cup {"\n", ";"}
    /\ \A i \in 1..(Len(text) - 1) : IsSeparatorChar(text[i]) \/ IsSeparatorChar(text[i + 1])

StatementNode(c) == IF c \in Digits THEN Literal(c) ELSE SymbolNode(<<c>>)

StatementChars(text) == SelectSeq(text, LAMBDA c : ~IsSeparatorChar(c))

Statements(text) ==
    [i \in 1..Len(StatementChars(text)) |-> StatementNode(StatementChars(text)[i])]

HasSeparator(text) == \E i \in 1..Len(text) : IsSeparatorChar(text[i])

\* Every BlockNode of the tree holds an expression.
RECURSIVE BlocksNonEmpty(_)
BlocksNonEmpty(n) ==
    /\ n.kind = "BlockNode" => Len(n.blocks) >= 1
    /\ \A i \in 1..Len(Children(n)) : BlocksNonEmpty(Children(n)[i])

(***************************************************************************)
(* C16.  Every BlockNode holds at least one expression.  A block of        *)
(* statements separated by newlines or ';' parses to the BlockNode of its  *)
(* statements, each once and in order, whatever separators lead, trail or  *)
(* repeat; when no separator follows the first statement the result is     *)
(* the bare expression.                                                    *)
(***************************************************************************)
C16_Block ==
    /\ status = "returned" => BlocksNonEmpty(ret)
    /\ (IsBlockText(input) /\ StatementChars(input) # <<>>) =>
          /\ status # "thrown"
          /\ status = "returned" =>
                IF ~IsSeparatorChar(input[Len(input)]) /\ Len(StatementChars(input)) = 1
                THEN ret = Statements(input)[1]
                ELSE ret = BlockNode(Statements(input))

(***************************************************************************)
(* C16, as the parser has it.  The result is the bare expression only when *)
(* the block has no separator at all; a single statement after a leading   *)
(* separator comes back in a BlockNode.                                    *)
(***************************************************************************)
C16_BlockAmended ==
    /\ status = "returned" => BlocksNonEmpty(ret)
    /\ (IsBlockText(input) /\ StatementChars(input) # <<>>) =>
          /\ status # "thrown"
          /\ ~Spinning
          /\ status = "returned" =>
                IF ~HasSeparator(input)
                THEN ret = Statements(input)[1]
                ELSE ret = BlockNode(Statements(input))

C16_Witness ==
    /\ input = <<";", "x">>
    /\ status = "returned"
    /\ ret = BlockNode(<<SymbolNode(<<"x">>)>>)

(***************************************************************************)
(* C17.  A call of nextToken() that returns a token leaves the cursor      *)
(* right after the lexeme: at the first character that is not a blank plus *)
(* the length of the token's value, the value being the text in between,   *)
(* so that no character of the input is lost.                              *)
(***************************************************************************)
C17_LexemeAt(r, s) ==
    (~r.thrown /\ r.token.cls = "Token" /\ r.token # EndOfInputToken) =>
        /\ r.position = s + Len(r.token.value)
        /\ r.token.value = SubSeq(input, s + 1, r.position)

C17_AdvanceByLexeme ==
    status = "running" =>
        \A s \in position..(Len(input) - 1) :
            (BlanksBetween(input, position, s) /\ ~isWhitespace(CharAt(input, s))) =>
                C17_LexemeAt(nextToken(input, position, line, column), s)

(***************************************************************************)
(* C18.  Positions are 0-based and consistent: the line of a token is the  *)
(* number of newlines of the input before its first character, its column  *)
(* the number of characters between the last of them (or the start) and    *)
(* that character.  Recognizing a newline consumes one character, adds one *)
(* to line and sets column to 0; nothing else changes line.                *)
(***************************************************************************)
NewlinesBefore(text, s) == Cardinality({i \in 0..(s - 1) : CharAt(text, i) = "\n"})

\* The 0-based index of the first character of the line that holds index s.
LineStart(text, s) ==
    IF NewlinesBefore(text, s) = 0 THEN 0
    ELSE 1 + CHOOSE i \in 0..(s - 1) :
                 /\ CharAt(text, i) = "\n"
                 /\ \A j \in (i + 1)..(s - 1) : CharAt(text, j) # "\n"

C18_PositionAt(r, s) ==
    (~r.thrown /\ r.token.cls = "Token") =>
        /\ r.token.line = NewlinesBefore(input, s)
        /\ r.token.column = s - LineStart(input, s)
        /\ IF CharAt(input, s) = "\n"
           THEN r.position = s + 1 /\ r.line = line + 1 /\ r.column = 0
           ELSE r.line = line

C18_LineAndColumn ==
    status = "running" =>
        \A s \in position..(Len(input) - 1) :
            (BlanksBetween(input, position, s) /\ ~isWhitespace(CharAt(input, s))) =>
                C18_PositionAt(nextToken(input, position, line, column), s)

(***************************************************************************)
(* Chains of comparisons, read from the tokens of the input.               *)
(***************************************************************************)
\* The tokens of a text from the cursor on, up to EndOfInput or to the first call of
\* nextToken that hands back no token.
RECURSIVE TokensOf(_, _, _, _)
TokensAfter(inp, r) ==
    IF r.thrown \/ r.token.cls # "Token" \/ r.token = EndOfInputToken THEN <<>>
    ELSE <<r.token>> \o TokensOf(inp, r.position, r.line, r.column)

TokensOf(inp, pos, ln, col) == TokensAfter(inp, nextToken(inp, pos, ln, col))

ComparisonLexemes == {<<"=", "=">>, <<"!", "=">>, <<"<">>, <<">">>, <<"<", "=">>, <<">", "=">>}

\* A text of digits, letters, blanks and comparison characters that ends in no blank:
\* the lexer reads all of it.
IsComparisonText(text) ==
    /\ text # <<>>
    /\ \A i \in 1..Len(text) : text[i] \in Digits \cup Letters \cup {" ", "<", ">", "=", "!"}
    /\ text[Len(text)] # " "

\* o1 op1 o2 ... on: integers and identifiers joined by comparison operators.
IsComparisonChain(toks) ==
    /\ Len(toks) % 2 = 1
    /\ \A i \in 1..Len(toks) :
          IF i % 2 = 1 THEN toks[i].type \in {TokenType.Integer, TokenType.Identifier}
          ELSE toks[i].value \in ComparisonLexemes

OperandNode(t) ==
    IF t.type = TokenType.Integer THEN ConstantNode(t.value, t.type) ELSE SymbolNode(t.value)

ComparisonTree(toks) ==
    IF Len(toks) = 1 THEN OperandNode(toks[1])
    ELSE IF Len(toks) = 3
    THEN OperatorNode(toks[2].value, Str(toks[2].value), OperandNode(toks[1]), OperandNode(toks[3]))
    ELSE RelationalNode([i \in 1..((Len(toks) - 1) \div 2) |-> toks[2 * i].value],
                        [i \in 1..((Len(toks) + 1) \div 2) |-> OperandNode(toks[2 * i - 1])])

\* Every RelationalNode of the tree has three operands or more, and one operator less.
RECURSIVE RelationalsChained(_)
RelationalsChained(n) ==
    /\ n.kind = "RelationalNode" =>
          Len(n.params) >= 3 /\ Len(n.conditionals) = Len(n.params) - 1
    /\ \A i \in 1..Len(Children(n)) : RelationalsChained(Children(n)[i])

(***************************************************************************)
(* C19.  A chain of n operands joined by comparison operators parses to    *)
(* the operand when n = 1, to a binary OperatorNode when n = 2, and when   *)
(* n >= 3 to a RelationalNode of the n - 1 operators and the n operands in *)
(* source order.  No RelationalNode has fewer than three operands.         *)
(***************************************************************************)
C19_Chain(toks) ==
    IsComparisonChain(toks) =>
        /\ status # "thrown"
        /\ ~Spinning
        /\ status = "returned" => ret = ComparisonTree(toks)

C19_Relational ==
    /\ status = "returned" => RelationalsChained(ret)
    /\ IsComparisonText(input) => C19_Chain(TokensOf(input, 0, 0, 0))

C19_Witness ==
    /\ input = <<"1", " ", "<", " ", "2", " ", "<", "=", " ", "3">>
    /\ status = "returned"
    /\ ret = RelationalNode(<<<<"<">>, <<"<", "=">>>>,
                            <<ConstantNode(<<"1">>, "integer"), ConstantNode(<<"2">>, "integer"),
                              ConstantNode(<<"3">>, "integer")>>)

(***************************************************************************)
(* C20.  A number with an exponent is one literal: digits, maybe a         *)
(* fraction, then 'e' or 'E', maybe a sign, and one digit or more lex to   *)
(* one token of type Integer or Decimal whose value is the whole text.  No *)
(* number token has an undefined type, and an 'e' with no digit after it   *)
(* is left out of the number.                                              *)
(***************************************************************************)
IsMantissa(text) == (text # <<>> /\ AllDigits(text)) \/ IsDecimalText(text)

IsExponent(text) ==
    /\ text # <<>>
    /\ IF text[1] \in {"+", "-"}
       THEN Len(text) >= 2 /\ AllDigits(Tail(text))
       ELSE AllDigits(text)

IsExponentText(text) ==
    \E k \in 2..(Len(text) - 1) :
        /\ text[k] \in {"e", "E"}
        /\ IsMantissa(SubSeq(text, 1, k - 1))
        /\ IsExponent(SubSeq(text, k + 1, Len(text)))

C20_OneLiteral(r) ==
    /\ ~r.thrown
    /\ r.token.cls = "Token"
    /\ r.token.type \in {TokenType.Integer, TokenType.Decimal}
    /\ r.token.value = input

C20_Exponent ==
    /\ \A i \in 1..Len(tokens) : tokens[i].cls = "Token" => tokens[i].type # UndefinedType
    /\ (status = "running" /\ position = 0 /\ IsExponentText(input)) =>
          C20_OneLiteral(nextToken(input, position, line, column))
    /\ (status = "returned" /\ IsMantissa(SubSeq(input, 1, Len(input) - 1))
          /\ input[Len(input)] \in {"e", "E"}) =>
          /\ Len(tokens) = 2
          /\ tokens[1].value = SubSeq(input, 1, Len(input) - 1)
          /\ tokens[1].type \in {TokenType.Integer, TokenType.Decimal}
          /\ tokens[2].type = TokenType.Identifier

(***************************************************************************)
(* C21.  A call of nextToken() throws or returns a Token with a defined    *)
(* type: it never hands back undefined or another value, and when the      *)
(* number machine stops in a state that is not accepting, the lone '.'     *)
(* apart, it throws instead of returning the part it had accepted.         *)
(***************************************************************************)
\* The state in which the number machine stops on a text, and how much it has read.
RECURSIVE StopOf(_, _, _)
StopOf(text, i, state) ==
    IF i > Len(text) \/ nextState(state, text[i]) = NoNextState
    THEN [state |-> state, read |-> i - 1]
    ELSE StopOf(text, i + 1, nextState(state, text[i]))

DeadEnd(stop) ==
    /\ stop.read >= 1
    /\ stop.state \notin acceptingStates
    /\ ~(stop.read = 1 /\ stop.state = BeginNumberWithFractionalPart)

C21_TokenOrThrowAt(r, s) ==
    /\ r.thrown \/ (r.token.cls = "Token" /\ r.token.type # UndefinedType)
    /\ (isValidPartOfNumber(CharAt(input, s)) /\ DeadEnd(StopOf(Substring(input, s), 1, Initial)))
          => r.thrown

C21_TokenOrThrow ==
    status = "running" =>
        \A s \in position..(Len(input) - 1) :
            (BlanksBetween(input, position, s) /\ ~isWhitespace(CharAt(input, s))) =>
                C21_TokenOrThrowAt(nextToken(input, position, line, column), s)

(***************************************************************************)
(* C22.  No partly built node leaves the parser: in a returned tree every  *)
(* OperatorNode has a left and a right child, every ConditionalNode a      *)
(* condition and a true branch, every WhileLoopNode a condition and a      *)
(* body, every AssignmentNode a target and a value, and every              *)
(* FunctionCallNode and ArrayNode defined elements only.                   *)
(***************************************************************************)
Defined(n) == n # UndefinedNode

AllDefined(nodes) == \A i \in 1..Len(nodes) : Defined(nodes[i])

\* The children a node of this kind must have are there.
Built(n) ==
    CASE n.kind = "OperatorNode" -> Defined(n.left) /\ Defined(n.right)
      [] n.kind = "ConditionalNode" -> Defined(n.condition) /\ Defined(n.trueExpr)
      [] n.kind = "WhileLoopNode" -> Defined(n.condition) /\ Defined(n.body)
      [] n.kind = "AssignmentNode" -> Defined(n.symbol) /\ Defined(n.value)
      [] n.kind = "FunctionCallNode" -> Defined(n.identifier) /\ AllDefined(n.args)
      [] n.kind = "ArrayNode" -> AllDefined(n.content)
      [] OTHER -> TRUE

RECURSIVE FullyBuilt(_)
FullyBuilt(n) ==
    /\ Built(n)
    /\ \A i \in 1..Len(Children(n)) : FullyBuilt(Children(n)[i])

C22_NoPartialNode == status = "returned" => FullyBuilt(ret)

(***************************************************************************)
(* C23.  Accessors apply from left to right to the primary before them:    *)
(* for a primary p and accessors s1 ... sk, each '@' and an index or a     *)
(* call '(' argument ')', the tree is sk(... s1(p)).  'a@b@c' is           *)
(* AccessorNode(AccessorNode(a, b), c) and 'a@b(1)' is the call of         *)
(* AccessorNode(a, b) on 1: the index after '@' takes none of the          *)
(* accessors that follow it.                                               *)
(***************************************************************************)
IsOperandChar(c) == c \in Letters \cup Digits

\* From the i-th character on, the text is a sequence of '@x', '(x)' and '()'.
RECURSIVE IsAccessors(_, _)
IsAccessors(text, i) ==
    IF i > Len(text) THEN TRUE
    ELSE IF text[i] = "@"
    THEN i + 1 <= Len(text) /\ text[i + 1] \in Letters /\ IsAccessors(text, i + 2)
    ELSE IF text[i] = "("
    THEN IF i + 1 <= Len(text) /\ text[i + 1] = ")" THEN IsAccessors(text, i + 2)
         ELSE /\ i + 2 <= Len(text)
              /\ IsOperandChar(text[i + 1])
              /\ text[i + 2] = ")"
              /\ IsAccessors(text, i + 3)
    ELSE FALSE

IsAccessorText(text) ==
    /\ Len(text) >= 2
    /\ text[1] \in Letters
    /\ IsAccessors(text, 2)

\* The accessors from the i-th character on, applied one after the other to node.
RECURSIVE Applied(_, _, _)
Applied(text, i, node) ==
    IF i > Len(text) THEN node
    ELSE IF text[i] = "@"
    THEN Applied(text, i + 2, AccessorNode(node, StatementNode(text[i + 1])))
    ELSE IF text[i + 1] = ")"
    THEN Applied(text, i + 2, FunctionCallNode(node, <<>>))
    ELSE Applied(text, i + 3, FunctionCallNode(node, <<StatementNode(text[i + 1])>>))

C23_AccessorsLeftToRight ==
    IsAccessorText(input) =>
        /\ status # "thrown"
        /\ ~Spinning
        /\ status = "returned" => ret = Applied(input, 2, SymbolNode(<<input[1]>>))

(***************************************************************************)
(* C24. Whenever parse() returns without throwing, the whole input has     *)
(* been consumed: the parser's current token is the EndOfInput token.      *)
(* Tokens left over after a complete expression ('1 2', 'a )', 'x hello')  *)
(* must raise instead of being dropped.                                    *)
(***************************************************************************)
C24_WholeInput == status = "returned" => currentToken = EndOfInputToken

(***************************************************************************)
(* Operands read and operands kept.                                        *)
(***************************************************************************)
\* A token that parseNumber, parseString or parseSymbolOrConstant turns into a node.
\* The words parseAssignment skips before '=' and the identifiers parseRelational
\* takes for operators are read as tokens without becoming nodes.
IsOperandToken(t) ==
    /\ t.type \in {TokenType.Integer, TokenType.Decimal, TokenType.String,
                   TokenType.Identifier, "true", "false", "null"}
    /\ t.value \notin greetings \cup inheritedKeys

OperandTokens(text) == SelectSeq(TokensOf(text, 0, 0, 0), IsOperandToken)

\* The number of operands a tree holds: its symbols and constants, and the name and
\* the parameters of a function definition.
RECURSIVE LeafCount(_), SumLeaves(_, _)
SumLeaves(nodes, leaves) ==
    IF nodes = <<>> THEN leaves
    ELSE SumLeaves(Tail(nodes), leaves + LeafCount(Head(nodes)))

LeafCount(n) ==
    CASE n.kind \in {"SymbolNode", "ConstantNode"} -> 1
      [] n.kind = "FunctionAssignmentNode" -> 1 + Len(n.args) + LeafCount(n.value)
      [] OTHER -> SumLeaves(Children(n), 0)

(***************************************************************************)
(* C25. Every node built during a successful parse is part of the returned *)
(* tree: when parse() returns with the whole input read, the tree holds    *)
(* one symbol or constant for every operand token of the input, so the     *)
(* operand in front of a postfix 'if' or 'while' is not lost.              *)
(***************************************************************************)
C25_NothingDropped ==
    (status = "returned" /\ currentToken = EndOfInputToken) =>
        LeafCount(ret) = Len(OperandTokens(input))

====
